---- MODULE Spec2Model ----
(***************************************************************************)
(* A model of briefcase's Windows MSI backend                              *)
(* (src/briefcase/platforms/windows/msi.py):                               *)
(*   - WindowsMSIMixin: bundle_path, distribution_path, verify_tools       *)
(*   - WindowsMSICreateCommand.support_package_url                         *)
(*   - WindowsMSIBuildCommand.build_app (heat -> candle -> light)          *)
(*                                                                         *)
(* A path is the sequence of its components; an absolute path starts with  *)
(* the anchor "/".  A command-line argument is a string, kept as the       *)
(* sequence of its separator-free segments, so that str(path) is the       *)
(* path's components and a literal flag s is <<s>>.                        *)
(***************************************************************************)
EXTENDS Integers, Sequences, FiniteSets, TLC

VARIABLES
    env_WIX,      \* the WIX environment variable: Absent, or a string (a path)
    fs,           \* the set of paths (absolute) that exist on disk
    app,          \* the app being built (a BaseConfig: name, formal_name, version)
    heat_exe,     \* self.heat_exe   (Unset before verify_tools)
    light_exe,    \* self.light_exe
    candle_exe,   \* self.candle_exe
    pc,           \* position of the build command
    calls,        \* the recorded self.subprocess.run calls, in order
    outcomes,     \* what each of those calls did: "ok", "nonzero", "spawnfail"
    raised,       \* the exception that left the command, or NoError
    written,      \* the paths the external tools wrote, in order
    missing,      \* per call, the input files that were not on disk when it was made
    stamp,        \* per file a tool wrote: the call that wrote it last, and whether whole
    sys_version,  \* sys.version_info[:3]
    pointer_size, \* struct.calcsize("P")
    url,          \* the last value of support_package_url, or NoUrl
    cpc,          \* position of the create command in install_app_support_package
    sfiles,       \* the text files of the support directory: path -> lines
    pth_first,    \* the ._pth content after the first install that returned
    craised,      \* the exception that left install_app_support_package, or NoOSError
    events,       \* what the current install has done so far, in order
    installs,     \* how many times install_app_support_package was called
    apps2,        \* two apps built side by side
    pc2,          \* per side, the position of its build_app
    made2,        \* per side, the files its tools wrote
    cwds2         \* per side, the working directories its tools ran in

vars == << env_WIX, fs, app, heat_exe, light_exe, candle_exe, pc, calls,
           outcomes, raised, written, missing, stamp,
           sys_version, pointer_size, url,
           cpc, sfiles, pth_first, craised, events, installs,
           apps2, pc2, made2, cwds2 >>

build_vars == << env_WIX, fs, app, heat_exe, light_exe, candle_exe, pc, calls,
                 outcomes, raised, written, missing, stamp >>

url_vars == << sys_version, pointer_size, url >>

config_vars == << cpc, sfiles, pth_first, craised, events, installs >>

pair_vars == << apps2, pc2, made2, cwds2 >>

-----------------------------------------------------------------------------
(* Bounds of the model *)

\* sys.version_info[:3] ranges over 2..MaxMajor, 0..MaxMinor, 0..MaxMicro
MaxMajor == 3
MaxMinor == 8
MaxMicro == 3

\* install_app_support_package is called at most MaxInstalls times for an app
MaxInstalls == 3

-----------------------------------------------------------------------------
(* Paths *)

Absent == <<"<absent>">>
Unset == <<"<unset>">>
NoError == [type |-> "None", msg |-> ""]
NoUrl == ""

\* pathlib: Path(s) of the string s; Path('') is the relative path '.', which
\* has no components
Path(s) == s

\* pathlib: path / name, for a name of one component
Join(p, name) == Append(p, name)

IsAbsolute(p) == Len(p) > 0 /\ p[1] = "/"

\* What the operating system makes of path p used from the directory cwd
Resolve(cwd, p) == IF IsAbsolute(p) THEN p ELSE cwd \o p

\* bool(path): pathlib's PurePath defines neither __bool__ nor __len__, so
\* every Path object is true, Path('') included
PathTruth(p) == TRUE

\* os.getenv(name, default)
getenv(value, default) == IF value = Absent THEN default ELSE value

\* A literal argument string
Lit(s) == <<s>>

-----------------------------------------------------------------------------
(* The world around the command *)

\* The directory the command is started from, and the project's base path
\* (briefcase passes Path.cwd() as base_path)
Cwd == <<"/", "base">>
base_path == Cwd

\* self.platform_path: base_path / 'windows'
platform_path == Join(base_path, "windows")

\* The app configurations: two apps of one formal name and version, and a third
Apps ==
    { [name |-> "first",  formal_name |-> "First App",  version |-> "0.0.1"],
      [name |-> "second", formal_name |-> "Second App", version |-> "0.0.2"],
      [name |-> "third",  formal_name |-> "First App",  version |-> "0.0.1"] }

\* An installation root of WiX, and a directory that holds none
WixRoot == <<"/", "wix">>
OtherRoot == <<"/", "other">>

\* The values of the WIX environment variable: not set, set to the empty
\* string, set to a directory
WixValues == { Absent, <<>>, WixRoot, OtherRoot }

ToolNames == { "heat.exe", "light.exe", "candle.exe" }

ToolFilesUnder(root) == { Join(Join(root, "bin"), t) : t \in ToolNames }

\* exists(): the path, taken from the command's current directory, is on disk
exists(p) == Resolve(Cwd, p) \in fs

-----------------------------------------------------------------------------
(* WindowsMSIMixin *)

\* A variant of bundle_path: one bundle root for every app
bundle_path_shared(a) == platform_path

\* bundle_path(app): platform_path / app.name
bundle_path(a) == Join(platform_path, a.name)

\* A variant of distribution_path: the installer inside the bundle root
distribution_path_in_bundle(a) ==
    Join(Join(platform_path, a.name), a.formal_name \o "-" \o a.version \o ".msi")

\* distribution_path(app): platform_path / '{app.formal_name}-{app.version}.msi'
distribution_path(a) ==
    Join(platform_path, a.formal_name \o "-" \o a.version \o ".msi")

\* verify_tools: wix_path = Path(os.getenv('WIX', ''))
wix_path(value) == Path(getenv(value, <<>>))

\* verify_tools: the three executables under wix_path / 'bin'
heat_path(wp) == Join(Join(wp, "bin"), "heat.exe")
light_path(wp) == Join(Join(wp, "bin"), "light.exe")
candle_path(wp) == Join(Join(wp, "bin"), "candle.exe")

\* A variant of tools_found: candle.exe is not looked for
tools_found_no_candle(wp, heat, light, candle) ==
    PathTruth(wp) /\ exists(heat) /\ exists(light)

\* verify_tools: the condition under which it does not raise
tools_found(wp, heat, light, candle) ==
    PathTruth(wp) /\ exists(heat) /\ exists(light) /\ exists(candle)

\* The message of the error verify_tools raises (abridged to its sentences)
WixNotInstalled ==
    "WiX Toolset is not installed. "
    \o "Please install the latest stable release from: http://wixtoolset.org/ "
    \o "If WiX is already installed, set the WIX environment variable to the install path. "
    \o "If you're using Windows 10, you may need to enable the .NET 3.5 framework before installing WiX."

BriefcaseCommandError(msg) == [type |-> "BriefcaseCommandError", msg |-> msg]

\* The build command runs verify_tools once, and build_app only when it
\* returned
after_verify(ok) == IF ok THEN "harvest" ELSE "verify_failed"

verify_tools ==
    /\ pc = "start"
    /\ LET wp == wix_path(env_WIX)
           ok == tools_found(wp, heat_path(wp), light_path(wp), candle_path(wp))
       IN  /\ heat_exe' = heat_path(wp)
           /\ light_exe' = light_path(wp)
           /\ candle_exe' = candle_path(wp)
           /\ raised' = IF ok THEN NoError ELSE BriefcaseCommandError(WixNotInstalled)
           /\ pc' = after_verify(ok)
    /\ UNCHANGED << env_WIX, fs, app, calls, outcomes, written, missing, stamp,
                    url_vars, config_vars, pair_vars >>

-----------------------------------------------------------------------------
(* The external processes *)

Outcomes == { "ok", "nonzero", "spawnfail" }

\* A variant of subprocess_run: check=True left out, a non-zero exit returns
subprocess_run_unchecked(outcome) ==
    IF outcome = "spawnfail" THEN "OSError" ELSE "None"

\* self.subprocess.run(..., check=True): the exception it ends with.  A tool
\* that exits non-zero gives CalledProcessError; a process that cannot be
\* started gives an OSError (FileNotFoundError, PermissionError, ...)
subprocess_run(outcome) ==
    CASE outcome = "ok" -> "None"
      [] outcome = "nonzero" -> "CalledProcessError"
      [] outcome = "spawnfail" -> "OSError"

\* The names a definition file or an object file can have before its extension
Stems == UNION { { a.name, a.name \o "-manifest" } : a \in Apps }

\* candle.exe: the object file it writes for one of its inputs, <stem>.wxs
\* giving <stem>.wixobj
ObjectOf(wxs) ==
    LET stem == CHOOSE s \in Stems : wxs = Lit(s \o ".wxs")
    IN  Lit(stem \o ".wixobj")

\* heat.exe writes the file named after -out, the last of its arguments
heat_writes(call) == << Resolve(call.cwd, call.args[Len(call.args)]) >>

\* candle.exe writes one object file per input, the last two of its
\* arguments, into its working directory
candle_writes(call) ==
    << Resolve(call.cwd, ObjectOf(call.args[Len(call.args) - 1])),
       Resolve(call.cwd, ObjectOf(call.args[Len(call.args)])) >>

\* light.exe writes the file named after -o
light_writes(call) ==
    LET i == CHOOSE j \in 1..Len(call.args) : call.args[j] = Lit("-o")
    IN  << Resolve(call.cwd, call.args[i + 1]) >>

Range(seq) == { seq[i] : i \in 1..Len(seq) }

\* heat.exe reads the directory named after dir, the third of its arguments
heat_reads(call) == { Resolve(call.cwd, call.args[3]) }

\* candle.exe reads its inputs, the last two of its arguments
candle_reads(call) ==
    { Resolve(call.cwd, call.args[Len(call.args) - 1]),
      Resolve(call.cwd, call.args[Len(call.args)]) }

\* light.exe reads the object files, the last two of its arguments
light_reads(call) ==
    { Resolve(call.cwd, call.args[Len(call.args) - 1]),
      Resolve(call.cwd, call.args[Len(call.args)]) }

-----------------------------------------------------------------------------
(* WindowsMSIBuildCommand.build_app *)

\* The argument vector of the harvest stage
harvest_args(a, heat) ==
    << heat, Lit("dir"), Lit("SourceDir"), Lit("-nologo"), Lit("-gg"),
       Lit("-sfrag"), Lit("-sreg"), Lit("-srd"), Lit("-scom"),
       Lit("-dr"), Lit("BRIEFCASE_CONTENT"),
       Lit("-cg"), Lit("BRIEFCASE_COMPONENTS"),
       Lit("-out"), Lit(a.name \o "-manifest.wxs") >>

\* A variant of compile_args: the compile stage runs the link tool
compile_args_light_exe(a, candle) ==
    << light_exe, Lit("-nologo"),
       Lit("-ext"), Lit("WixUtilExtension"),
       Lit("-ext"), Lit("WixUIExtension"),
       Lit(a.name \o ".wxs"), Lit(a.name \o "-manifest.wxs") >>

\* The argument vector of the compile stage
compile_args(a, candle) ==
    << candle, Lit("-nologo"),
       Lit("-ext"), Lit("WixUtilExtension"),
       Lit("-ext"), Lit("WixUIExtension"),
       Lit(a.name \o ".wxs"), Lit(a.name \o "-manifest.wxs") >>

\* A variant of link_args: the manifest object under another name
link_args_other_object(a, light) ==
    << light, Lit("-nologo"),
       Lit("-ext"), Lit("WixUtilExtension"),
       Lit("-ext"), Lit("WixUIExtension"),
       Lit("-o"), distribution_path(a),
       Lit(a.name \o ".wixobj"), Lit(a.name \o ".manifest.wixobj") >>

\* The argument vector of the link stage
link_args(a, light) ==
    << light, Lit("-nologo"),
       Lit("-ext"), Lit("WixUtilExtension"),
       Lit("-ext"), Lit("WixUIExtension"),
       Lit("-o"), distribution_path(a),
       Lit(a.name \o ".wixobj"), Lit(a.name \o "-manifest.wixobj") >>

\* A variant of stage_cwd: the tools run in the platform directory
stage_cwd_platform(a) == platform_path

\* cwd=str(self.bundle_path(app)), the same in the three stages
stage_cwd(a) == bundle_path(a)

\* A variant of harvest_error: the message does not name the app
harvest_error_no_app(a) == "Unable to generate manifest."

\* The messages of the three except clauses
harvest_error(a) == "Unable to generate manifest for app " \o a.name \o "."
compile_error(a) == "Unable to compile app " \o a.name \o "."
link_error(a) == "Unable to link app " \o a.name \o "."

\* try: ... except subprocess.CalledProcessError: raise BriefcaseCommandError(msg)
\* Any other exception leaves build_app as it is
except_CalledProcessError(exc, msg) ==
    IF exc = "CalledProcessError"
    THEN BriefcaseCommandError(msg)
    ELSE [type |-> exc, msg |-> ""]

\* A variant of after_call: the except clause reports and does not raise
after_call_continue(exc, next) == next

\* A variant of after_call: a failed build starts over
after_call_retry(exc, next) == IF exc = "None" THEN next ELSE "harvest"

\* Where build_app is after a call: at the next statement when the call
\* returned, out of the function when an exception was raised
after_call(exc, next) == IF exc = "None" THEN next ELSE "failed"

\* self.subprocess.run(args, check=True, cwd=str(self.bundle_path(app)))
call_of(a, args) == [args |-> args, check |-> TRUE, cwd |-> stage_cwd(a)]

stage_call(args) == call_of(app, args)

\* A variant of files_after_failure: the except clause removes what the
\* tools wrote
files_cleaned_up(files, made) == files \ made

\* What is on disk when an exception leaves build_app: the except clauses
\* raise and touch no file
files_after_failure(files, made) == files

\* The files a tool that exits non-zero may have left: any of its outputs
Leftovers(outcome, files) ==
    IF outcome = "nonzero" THEN SUBSET Range(files) ELSE { { } }

\* The stamps after call number n wrote the files in made
Stamped(old, made, n, whole) ==
    [ p \in DOMAIN old \cup made |->
        IF p \in made THEN [by |-> n, whole |-> whole] ELSE old[p] ]

\* One stage: the call is made and recorded; if it raised nothing the tool's
\* files are on disk and build_app goes on to the next statement, otherwise
\* the exception leaves build_app
Stage(here, call, msg, reads, files, next, outcome, left) ==
    LET exc == subprocess_run(outcome)
        n == Len(calls) + 1
    IN  /\ pc = here
        /\ calls' = Append(calls, call)
        /\ outcomes' = Append(outcomes, outcome)
        /\ missing' = Append(missing, reads \ fs)
        /\ IF exc = "None"
           THEN /\ fs' = fs \cup Range(files)
                /\ stamp' = Stamped(stamp, Range(files), n, TRUE)
                /\ written' = written \o files
                /\ raised' = NoError
           ELSE /\ fs' = files_after_failure(fs \cup left, Range(written))
                /\ stamp' = Stamped(stamp, left, n, FALSE)
                /\ raised' = except_CalledProcessError(exc, msg)
                /\ UNCHANGED written
        /\ pc' = after_call(exc, next)
        /\ UNCHANGED << env_WIX, app, heat_exe, light_exe, candle_exe,
                        url_vars, config_vars, pair_vars >>

harvest ==
    \E outcome \in Outcomes :
        LET call == stage_call(harvest_args(app, heat_exe))
        IN  \E left \in Leftovers(outcome, heat_writes(call)) :
                Stage("harvest", call, harvest_error(app), heat_reads(call),
                      heat_writes(call), "compile", outcome, left)

compile ==
    \E outcome \in Outcomes :
        LET call == stage_call(compile_args(app, candle_exe))
        IN  \E left \in Leftovers(outcome, candle_writes(call)) :
                Stage("compile", call, compile_error(app), candle_reads(call),
                      candle_writes(call), "link", outcome, left)

link ==
    \E outcome \in Outcomes :
        LET call == stage_call(link_args(app, light_exe))
        IN  \E left \in Leftovers(outcome, light_writes(call)) :
                Stage("link", call, link_error(app), light_reads(call),
                      light_writes(call), "done", outcome, left)

-----------------------------------------------------------------------------
(* The build command, from its start to the end of build_app *)

\* What the bundle root of an app holds before the build: the payload and the
\* installer definition
BundleInputs(a) ==
    { Join(bundle_path(a), "SourceDir"), Join(bundle_path(a), a.name \o ".wxs") }

\* No install_app_support_package under way, no side-by-side builds
NoFile == << << "<no file>" >> >>
NoOSError == [type |-> "None", filename |-> << >>]

InitConfigIdle ==
    /\ cpc = "idle"
    /\ sfiles = << >>
    /\ pth_first = NoFile
    /\ craised = NoOSError
    /\ events = << >>
    /\ installs = 0

InitPairIdle ==
    /\ apps2 = << >>
    /\ pc2 = << >>
    /\ made2 = << >>
    /\ cwds2 = << >>

InitUrl ==
    /\ sys_version = << 3, 7, 2 >>
    /\ pointer_size = 8
    /\ url = NoUrl

Init ==
    /\ env_WIX \in WixValues
    /\ app \in Apps
    /\ \E installed \in SUBSET ToolFilesUnder(WixRoot),
          local \in SUBSET ToolFilesUnder(Cwd),
          inputs \in SUBSET BundleInputs(app) :
            fs = installed \cup local \cup inputs
    /\ heat_exe = Unset
    /\ light_exe = Unset
    /\ candle_exe = Unset
    /\ pc = "start"
    /\ calls = << >>
    /\ outcomes = << >>
    /\ raised = NoError
    /\ written = << >>
    /\ missing = << >>
    /\ stamp = << >>
    /\ InitUrl
    /\ InitConfigIdle
    /\ InitPairIdle

Next ==
    \/ verify_tools
    \/ harvest
    \/ compile
    \/ link

Spec == Init /\ [][Next]_vars

-----------------------------------------------------------------------------
(* WindowsMSICreateCommand.support_package_url *)

Versions == (2..MaxMajor) \X (0..MaxMinor) \X (0..MaxMicro)

\* struct.calcsize("P"), in bytes
PointerSizes == { 4, 8, 16 }

\* "%s.%s.%s" % sys.version_info[:3]
version_string(v) == ToString(v[1]) \o "." \o ToString(v[2]) \o "." \o ToString(v[3])

\* A variant of arch_tag: win32 for a word of 32 bits only
arch_tag_32_only(size) == IF size * 8 = 32 THEN "win32" ELSE "amd64"

\* "amd64" if (struct.calcsize("P") * 8) == 64 else "win32"
arch_tag(size) == IF size * 8 = 64 THEN "amd64" ELSE "win32"

\* The two return statements
repackaged_url(version, arch) ==
    "https://www.python.org/ftp/python/" \o version
        \o "/python-" \o version \o ".post1-embed-" \o arch \o ".zip"

standard_url(version, arch) ==
    "https://www.python.org/ftp/python/" \o version
        \o "/python-" \o version \o "-embed-" \o arch \o ".zip"

\* A variant of support_package_url: every 3.7 release takes the repackaged link
support_package_url_any_37(v, size) ==
    IF v[1] = 3 /\ v[2] = 7
    THEN repackaged_url(version_string(v), arch_tag(size))
    ELSE standard_url(version_string(v), arch_tag(size))

support_package_url(v, size) ==
    LET version == version_string(v)
        arch == arch_tag(size)
    IN  IF version = "3.7.2"
        THEN repackaged_url(version, arch)
        ELSE standard_url(version, arch)

\* The create command reads the property
get_support_package_url ==
    /\ url = NoUrl
    /\ url' = support_package_url(sys_version, pointer_size)
    /\ UNCHANGED << sys_version, pointer_size, build_vars, config_vars, pair_vars >>

InitResolver ==
    /\ sys_version \in Versions
    /\ pointer_size \in PointerSizes
    /\ url = NoUrl
    /\ env_WIX = Absent
    /\ app \in Apps
    /\ fs = { }
    /\ heat_exe = Unset
    /\ light_exe = Unset
    /\ candle_exe = Unset
    /\ pc = "create"
    /\ calls = << >>
    /\ outcomes = << >>
    /\ raised = NoError
    /\ written = << >>
    /\ missing = << >>
    /\ stamp = << >>
    /\ InitConfigIdle
    /\ InitPairIdle

NextResolver == get_support_package_url

ResolverSpec == InitResolver /\ [][NextResolver]_vars

-----------------------------------------------------------------------------
(* WindowsMSICreateCommand.install_app_support_package *)

\* self.support_path(app): the python directory of the bundle, the one that
\* holds pythonw.exe in binary_path
support_path(a) == Join(Join(bundle_path(a), "SourceDir"), "python")

\* "{sys.version_info.major}{sys.version_info.minor}"
version_tag(v) == ToString(v[1]) \o ToString(v[2])

\* self.support_path(app) / 'python{version_tag}._pth'
pth_file(a, v) == Join(support_path(a), "python" \o version_tag(v) \o "._pth")

\* A variant of pth_lines: the current directory is left out
pth_lines_no_dot(v) ==
    << << "python" \o version_tag(v) \o ".zip" >>,
       << "..", "", "app" >>,
       << "..", "", "app_packages" >> >>

\* The four f.write calls, one line each.  A line is kept as its segments
\* between backslashes: the literal "..\\\\app\n" is the characters
\* ..\\app, two backslashes, that is the segments "..", "" and "app"
pth_lines(v) ==
    << << "python" \o version_tag(v) \o ".zip" >>,
       << "." >>,
       << "..", "", "app" >>,
       << "..", "", "app_packages" >> >>

\* The python<tag>._pth an embeddable Python package ships
DefaultPth(v) ==
    << << "python" \o version_tag(v) \o ".zip" >>,
       << "." >>,
       << "" >>,
       << "# Uncomment to run site.main() automatically" >>,
       << "#import site" >> >>

ReadFile(files, f) == IF f \in DOMAIN files THEN files[f] ELSE NoFile

SetFile(files, f, lines) ==
    [ p \in DOMAIN files \cup { f } |-> IF p = f THEN lines ELSE files[p] ]

\* A variant of opened_w: the file is opened with 'a'
opened_a(old) == IF old = NoFile THEN << >> ELSE old

\* pth_file.open('w'): the file is created or truncated
opened_w(old) == << >>

\* super().install_app_support_package(app): the support package is unpacked
\* into the support directory, with the ._pth it ships if it ships one
generic_install(files, f, ships, default) ==
    IF ships THEN SetFile(files, f, default) ELSE files

\* A variant of InstallOrder: the ._pth is written before the package is
\* installed
InstallOrder_write_first == << "write", "super" >>

\* The statements of install_app_support_package, in order: the call of
\* super(), then the with block that writes the ._pth
InstallOrder == << "super", "write" >>

\* The statement after one that returned, "installed" after the last
step_after(step) ==
    LET i == CHOOSE k \in 1..Len(InstallOrder) : InstallOrder[k] = step
    IN  IF i = Len(InstallOrder) THEN "installed" ELSE InstallOrder[i + 1]

\* The ._pth content after the first install that returned
FirstContent(next, files) ==
    IF next = "installed" /\ pth_first = NoFile
    THEN ReadFile(files, pth_file(app, sys_version))
    ELSE pth_first

\* The create command calls install_app_support_package(app)
install_app_support_package ==
    /\ cpc \in { "idle", "installed", "aborted" }
    /\ installs < MaxInstalls
    /\ installs' = installs + 1
    /\ cpc' = InstallOrder[1]
    /\ events' = << >>
    /\ craised' = NoOSError
    /\ UNCHANGED << sfiles, pth_first, build_vars, url_vars, pair_vars >>

\* super().install_app_support_package(app) returns, or raises
super_install ==
    \E ok \in BOOLEAN, ships \in BOOLEAN :
        LET next == IF ok THEN step_after("super") ELSE "aborted"
            files == generic_install(sfiles, pth_file(app, sys_version), ships,
                                     DefaultPth(sys_version))
        IN  /\ cpc = "super"
            /\ sfiles' = files
            /\ events' = Append(events,
                  IF ~ok THEN "super_fail"
                  ELSE IF ships THEN "super_ok+pth" ELSE "super_ok")
            /\ craised' = IF ok THEN craised
                          ELSE [type |-> "BriefcaseCommandError", filename |-> << >>]
            /\ cpc' = next
            /\ pth_first' = FirstContent(next, files)
            /\ UNCHANGED << installs, build_vars, url_vars, pair_vars >>

\* How the with block ends: the four lines are written; open() raises
\* (permissions, missing directory), with the file's path in the error; or a
\* write raises after k lines (disk full), with no path in the error
WriteResults == { "ok", "open_fail", "write_fail" }

\* The with block is in no try: what open() or write() raises leaves
\* install_app_support_package unchanged
write_error(result, f) ==
    CASE result = "ok" -> craised
      [] result = "open_fail" -> [type |-> "OSError", filename |-> f]
      [] result = "write_fail" -> [type |-> "OSError", filename |-> << >>]

write_pth ==
    \E result \in WriteResults, k \in 0..3 :
        LET f == pth_file(app, sys_version)
            old == ReadFile(sfiles, f)
            lines == pth_lines(sys_version)
            next == IF result = "ok" THEN step_after("write") ELSE "aborted"
            files ==
                CASE result = "ok" -> SetFile(sfiles, f, opened_w(old) \o lines)
                  [] result = "open_fail" -> sfiles
                  [] result = "write_fail" ->
                        SetFile(sfiles, f, opened_w(old) \o SubSeq(lines, 1, k))
        IN  /\ cpc = "write"
            /\ result # "write_fail" => k = 0
            /\ sfiles' = files
            /\ events' = Append(events, IF result = "ok" THEN "write_ok" ELSE result)
            /\ craised' = write_error(result, f)
            /\ cpc' = next
            /\ pth_first' = FirstContent(next, files)
            /\ UNCHANGED << installs, build_vars, url_vars, pair_vars >>

\* What the ._pth of the support directory may hold before the first install:
\* nothing, the shipped default, the lines of an earlier create, other text
InitialPth(v) == { NoFile, DefaultPth(v), pth_lines(v), << << "import site" >> >> }

InitConfig ==
    /\ sys_version \in { v \in Versions : v[3] = 0 }
    /\ pointer_size = 8
    /\ url = NoUrl
    /\ app \in Apps
    /\ \E old \in InitialPth(sys_version) :
          sfiles = IF old = NoFile THEN << >>
                   ELSE SetFile(<< >>, pth_file(app, sys_version), old)
    /\ cpc = "idle"
    /\ pth_first = NoFile
    /\ craised = NoOSError
    /\ events = << >>
    /\ installs = 0
    /\ env_WIX = Absent
    /\ fs = { }
    /\ heat_exe = Unset
    /\ light_exe = Unset
    /\ candle_exe = Unset
    /\ pc = "create"
    /\ calls = << >>
    /\ outcomes = << >>
    /\ raised = NoError
    /\ written = << >>
    /\ missing = << >>
    /\ stamp = << >>
    /\ InitPairIdle

NextConfig ==
    \/ install_app_support_package
    \/ super_install
    \/ write_pth

ConfigSpec == InitConfig /\ [][NextConfig]_vars

-----------------------------------------------------------------------------
(* Two build commands side by side, one app each, under one platform path *)

Sides == { 1, 2 }

\* One stage of the build_app of side r: the call of build_app, with the
\* tool paths verify_tools resolved under WixRoot
PairStage(r, here, call, files, next, outcome, left) ==
    LET exc == subprocess_run(outcome)
        made == IF exc = "None" THEN Range(files) ELSE left
    IN  /\ pc2[r] = here
        /\ pc2' = [pc2 EXCEPT ![r] = after_call(exc, next)]
        /\ made2' = [made2 EXCEPT ![r] = @ \cup made]
        /\ cwds2' = [cwds2 EXCEPT ![r] = @ \cup { call.cwd }]
        /\ UNCHANGED << apps2, build_vars, url_vars, config_vars >>

pair_harvest ==
    \E r \in Sides, outcome \in Outcomes :
        LET call == call_of(apps2[r], harvest_args(apps2[r], heat_path(WixRoot)))
        IN  \E left \in Leftovers(outcome, heat_writes(call)) :
                PairStage(r, "harvest", call, heat_writes(call), "compile",
                          outcome, left)

pair_compile ==
    \E r \in Sides, outcome \in Outcomes :
        LET call == call_of(apps2[r], compile_args(apps2[r], candle_path(WixRoot)))
        IN  \E left \in Leftovers(outcome, candle_writes(call)) :
                PairStage(r, "compile", call, candle_writes(call), "link",
                          outcome, left)

pair_link ==
    \E r \in Sides, outcome \in Outcomes :
        LET call == call_of(apps2[r], link_args(apps2[r], light_path(WixRoot)))
        IN  \E left \in Leftovers(outcome, light_writes(call)) :
                PairStage(r, "link", call, light_writes(call), "done",
                          outcome, left)

InitPair ==
    /\ \E a \in Apps, b \in Apps :
          /\ a.name # b.name
          /\ apps2 = << a, b >>
    /\ pc2 = [r \in Sides |-> "harvest"]
    /\ made2 = [r \in Sides |-> { }]
    /\ cwds2 = [r \in Sides |-> { }]
    /\ env_WIX = WixRoot
    /\ app \in Apps
    /\ fs = { }
    /\ heat_exe = Unset
    /\ light_exe = Unset
    /\ candle_exe = Unset
    /\ pc = "pair"
    /\ calls = << >>
    /\ outcomes = << >>
    /\ raised = NoError
    /\ written = << >>
    /\ missing = << >>
    /\ stamp = << >>
    /\ InitUrl
    /\ InitConfigIdle

NextPair ==
    \/ pair_harvest
    \/ pair_compile
    \/ pair_link

PairSpec == InitPair /\ [][NextPair]_vars

-----------------------------------------------------------------------------
(* Properties of the build pipeline *)

AllOk == \A i \in 1..Len(outcomes) : outcomes[i] = "ok"

\* The file name of the executable a call ran
ToolOf(call) == call.args[1][Len(call.args[1])]

PipelineTools == << "heat.exe", "candle.exe", "light.exe" >>

Ended == pc \in { "done", "failed" }

\* The directory that holds p
Parent(p) == SubSeq(p, 1, Len(p) - 1)

\* C1: a run of build_app in which every tool succeeds makes exactly three
\* calls, heat.exe then candle.exe then light.exe, each with the bundle root
\* platform_path/<app name> as its working directory; no run makes a call out
\* of that order or in another directory.
C1_ThreeCallsInOrder ==
    /\ Len(calls) <= 3
    /\ \A i \in 1..Len(calls) :
          /\ ToolOf(calls[i]) = PipelineTools[i]
          /\ calls[i].cwd = Join(platform_path, app.name)
    /\ (Ended /\ AllOk) => Len(calls) = 3
    /\ pc = "done" => (Len(calls) = 3 /\ AllOk)

C1_Witness ==
    /\ pc = "done"
    /\ Len(calls) = 3
    /\ AllOk

\* C2: when heat.exe exits non-zero, candle.exe and light.exe are never run
\* and build_app raises the error whose message names manifest generation and
\* the app.
C2_HarvestFailureStops ==
    (Len(outcomes) >= 1 /\ outcomes[1] = "nonzero") =>
        /\ Len(calls) = 1
        /\ ToolOf(calls[1]) = "heat.exe"
        /\ pc = "failed"
        /\ raised.type = "BriefcaseCommandError"
        /\ raised.msg = "Unable to generate manifest for app " \o app.name \o "."

C2_Witness ==
    /\ Len(outcomes) = 1
    /\ outcomes[1] = "nonzero"
    /\ pc = "failed"

\* C3: a stage that failed, by a non-zero exit or by a process that could not
\* be started, is the last call of the run: the run has ended with an
\* exception and no later tool is run.
C3_FailureAborts ==
    \A i \in 1..Len(outcomes) :
        outcomes[i] # "ok" =>
            /\ i = Len(calls)
            /\ pc = "failed"
            /\ raised # NoError

C3_Witness ==
    /\ Len(outcomes) = 2
    /\ outcomes[2] = "spawnfail"
    /\ pc = "failed"

\* The phrase by which the error of each stage names the stage
StagePhrase ==
    << "Unable to generate manifest for app ",
       "Unable to compile app ",
       "Unable to link app " >>

\* C4: every stage failure, a non-zero exit or a process that could not be
\* started, is raised as a BriefcaseCommandError whose message names the
\* stage and the app, and the messages of the three stages differ.
C4_EveryFailureCategorized ==
    /\ \A i \in 1..Len(outcomes) :
          outcomes[i] # "ok" =>
              /\ raised.type = "BriefcaseCommandError"
              /\ raised.msg = StagePhrase[i] \o app.name \o "."
    /\ Cardinality({ harvest_error(app), compile_error(app), link_error(app) }) = 3

\* The tool paths under the directory WIX names
WixTools == ToolFilesUnder(wix_path(env_WIX))

\* C5: when one of heat.exe, candle.exe, light.exe is missing under <WIX>/bin,
\* verify_tools raises the error that tells how to install WiX, and no
\* external process is run, before or after.
C5_MissingToolNoProcess ==
    /\ (pc # "start" /\ \E t \in WixTools : ~exists(t)) =>
          /\ pc = "verify_failed"
          /\ raised = BriefcaseCommandError(WixNotInstalled)
          /\ calls = << >>
    /\ pc = "verify_failed" => calls = << >>
    /\ pc = "start" => calls = << >>

C5_Witness ==
    /\ pc = "verify_failed"
    /\ env_WIX = WixRoot
    /\ Cardinality({ t \in WixTools : ~exists(t) }) = 1

\* C6: with WIX not set, or set to the empty string, verify_tools raises
\* whatever the disk holds, also when bin/heat.exe, bin/candle.exe and
\* bin/light.exe exist under the current directory.
C6_NoRootAlwaysFails ==
    (env_WIX \in { Absent, << >> } /\ pc # "start") =>
        /\ pc = "verify_failed"
        /\ raised = BriefcaseCommandError(WixNotInstalled)

\* C7: build_app returns if and only if the three stages were run and the
\* three succeeded; every other run ends with an exception.
C7_NoPartialSuccess ==
    /\ pc = "done" <=> (Len(outcomes) = 3 /\ AllOk)
    /\ pc = "done" => raised = NoError
    /\ ~AllOk => (pc = "failed" /\ raised # NoError)
    /\ pc = "failed" => (~AllOk /\ raised # NoError)

C7_Witness ==
    /\ pc = "failed"
    /\ Len(outcomes) = 3
    /\ outcomes[3] = "nonzero"

\* C8: with SourceDir and the definition file in the bundle root and the
\* three tools succeeding, build_app returns and the file light.exe wrote is
\* distribution_path(app), that is platform_path/<formal name>-<version>.msi,
\* in the directory that holds the bundle root.
C8_InstallerAtDistributionPath ==
    (BundleInputs(app) \subseteq fs /\ Len(outcomes) = 3 /\ AllOk) =>
        /\ pc = "done"
        /\ Len(written) = 4
        /\ written[4] = distribution_path(app)
        /\ written[4] =
              Join(platform_path, app.formal_name \o "-" \o app.version \o ".msi")
        /\ Parent(written[4]) = Parent(bundle_path(app))
        /\ written[4] \in fs

C8_Witness ==
    /\ pc = "done"
    /\ BundleInputs(app) \subseteq fs
    /\ app.name = "first"
    /\ written[4] = << "/", "base", "windows", "First App-0.0.1.msi" >>

\* The files call number i reads and writes
StageReads(i) ==
    CASE i = 1 -> heat_reads(calls[1])
      [] i = 2 -> candle_reads(calls[2])
      [] i = 3 -> light_reads(calls[3])

StageWrites(i) ==
    CASE i = 1 -> Range(heat_writes(calls[1]))
      [] i = 2 -> Range(candle_writes(calls[2]))
      [] i = 3 -> Range(light_writes(calls[3]))

\* C15: with SourceDir and <name>.wxs in the bundle root at the start, every
\* call finds all its input files on disk: candle.exe is given <name>.wxs and
\* the <name>-manifest.wxs heat.exe wrote, light.exe is given exactly the two
\* object files candle.exe wrote.
C15_InputsExist ==
    /\ BundleInputs(app) \subseteq fs =>
          \A i \in 1..Len(missing) : missing[i] = { }
    /\ Len(calls) >= 2 =>
          /\ StageWrites(1) = { Join(bundle_path(app), app.name \o "-manifest.wxs") }
          /\ StageReads(2) =
                StageWrites(1) \cup { Join(bundle_path(app), app.name \o ".wxs") }
    /\ Len(calls) >= 3 =>
          /\ StageWrites(2) =
                { Join(bundle_path(app), app.name \o ".wixobj"),
                  Join(bundle_path(app), app.name \o "-manifest.wixobj") }
          /\ StageReads(3) = StageWrites(2)

C15_Witness ==
    /\ BundleInputs(app) \subseteq fs
    /\ Len(calls) = 3
    /\ missing = << { }, { }, { } >>

\* C16: no tool is run twice in a run of build_app, and a call that failed
\* is followed by no call at all.
C16_NoRetry ==
    /\ \A i, j \in 1..Len(calls) :
          ToolOf(calls[i]) = ToolOf(calls[j]) => i = j
    /\ \A i \in 1..Len(outcomes) :
          i < Len(calls) => outcomes[i] = "ok"

C16_Witness ==
    /\ pc = "failed"
    /\ Len(calls) = 2
    /\ outcomes = << "ok", "nonzero" >>

\* C17: the files of a stage that succeeded stay on disk as that stage wrote
\* them, whatever happens later: after a failed compile the manifest, after a
\* failed link the manifest and the two objects; nothing is cleaned up.
C17_ArtifactsKept ==
    \A i \in 1..Len(outcomes) :
        outcomes[i] = "ok" =>
            \A p \in StageWrites(i) :
                /\ p \in fs
                /\ p \in DOMAIN stamp
                /\ stamp[p] = [by |-> i, whole |-> TRUE]

C17_Witness ==
    /\ pc = "failed"
    /\ outcomes = << "ok", "ok", "nonzero" >>
    /\ distribution_path(app) \in fs
    /\ Join(bundle_path(app), app.name \o "-manifest.wxs") \in fs
    /\ Join(bundle_path(app), app.name \o "-manifest.wixobj") \in fs

\* The name of the installer file of an app
InstallerName(a) == a.formal_name \o "-" \o a.version \o ".msi"

SharedFiles == made2[1] \cap made2[2]

\* C18 as stated: two apps of distinct names built side by side use distinct
\* working directories and write no file in common, the installer included,
\* also when their formal name and version are the same.
C18_NoSharedFile ==
    /\ cwds2[1] \cap cwds2[2] = { }
    /\ SharedFiles = { }

\* C18: two apps of distinct names built side by side use distinct working
\* directories and write no file in common inside their bundle roots; the
\* one file both may write is the installer
\* platform_path/<formal name>-<version>.msi, and only when that name is the
\* same for the two apps, as it is for equal formal names and versions.
C18_OnlyInstallerShared ==
    /\ cwds2[1] \cap cwds2[2] = { }
    /\ \A p \in SharedFiles :
          /\ p = Join(platform_path, InstallerName(apps2[1]))
          /\ p = Join(platform_path, InstallerName(apps2[2]))
    /\ InstallerName(apps2[1]) # InstallerName(apps2[2]) => SharedFiles = { }
    /\ \A r \in Sides : \A p \in made2[r] :
          p # Join(platform_path, InstallerName(apps2[r])) =>
              /\ Parent(p) = Join(platform_path, apps2[r].name)
              /\ p \notin made2[3 - r]

C18_Witness ==
    /\ pc2[1] = "done"
    /\ pc2[2] = "done"
    /\ apps2[1].name = "first"
    /\ apps2[2].name = "third"
    /\ SharedFiles = { << "/", "base", "windows", "First App-0.0.1.msi" >> }

\* The tool path a stage is to run, as verify_tools resolved it
ResolvedTool(stage) ==
    CASE stage = "harvest" -> heat_path(wix_path(env_WIX))
      [] stage = "compile" -> candle_path(wix_path(env_WIX))
      [] stage = "link" -> light_path(wix_path(env_WIX))

\* C19: once verify_tools has run, no step changes heat_exe, candle_exe or
\* light_exe; the harvest stage runs the heat.exe, the compile stage the
\* candle.exe and the link stage the light.exe that verify_tools resolved, and
\* no stage raises the verification error.
C19_ToolPathsReadOnly ==
    [][ /\ pc # "start" =>
              /\ heat_exe' = heat_exe
              /\ candle_exe' = candle_exe
              /\ light_exe' = light_exe
              /\ raised' # BriefcaseCommandError(WixNotInstalled)
        /\ Len(calls') > Len(calls) =>
              /\ Len(calls') = Len(calls) + 1
              /\ calls'[Len(calls')].args[1] = ResolvedTool(pc)
              /\ ToolOf(calls'[Len(calls')]) = PipelineTools[Len(calls')]
      ]_vars

C19_Witness ==
    /\ pc = "failed"
    /\ env_WIX = WixRoot
    /\ Len(calls) = 3
    /\ calls[2].args[1] = << "/", "wix", "bin", "candle.exe" >>
    /\ candle_exe = << "/", "wix", "bin", "candle.exe" >>

-----------------------------------------------------------------------------
(* Properties of install_app_support_package *)

NonEmpty(segment) == segment # ""

\* The path a line names: repeated separators count as one
PathOfLine(line) == SelectSeq(line, NonEmpty)

\* The ._pth of the running Python in the support directory of the app
PthNow ==
    ReadFile(sfiles,
             Join(support_path(app),
                  "python" \o ToString(sys_version[1]) \o ToString(sys_version[2])
                      \o "._pth"))

LastEvent == IF events = << >> THEN "none" ELSE events[Len(events)]

\* C11: after install_app_support_package has returned, python<major><minor>._pth
\* in the support directory holds four lines: python<major><minor>.zip, the
\* directory ".", the path ..\app and the path ..\app_packages, for every app.
C11_PthFourLines ==
    cpc = "installed" =>
        /\ PthNow # NoFile
        /\ Len(PthNow) = 4
        /\ PthNow[1] =
              << "python" \o ToString(sys_version[1]) \o ToString(sys_version[2])
                    \o ".zip" >>
        /\ PthNow[2] = << "." >>
        /\ PathOfLine(PthNow[3]) = << "..", "app" >>
        /\ PathOfLine(PthNow[4]) = << "..", "app_packages" >>

C11_Witness ==
    /\ cpc = "installed"
    /\ app.name = "second"
    /\ sys_version = << 3, 7, 0 >>
    /\ PthNow[1] = << "python37.zip" >>
    /\ Len(PthNow) = 4

\* C12: whatever the file held before and however many installs ran before,
\* an install that returns leaves in the ._pth the content the first one left.
C12_PthIdempotent ==
    cpc = "installed" =>
        /\ pth_first # NoFile
        /\ PthNow = pth_first

C12_Witness ==
    /\ cpc = "installed"
    /\ installs = 3
    /\ events = << "super_ok", "write_ok" >>
    /\ PthNow = pth_first

\* The error names the app: it is the command error of the app, or it
\* carries a path under the app's bundle root
IdentifiesApp(e) ==
    \/ e.type = "BriefcaseCommandError"
    \/ app.name \in Range(e.filename)

\* C13: when the ._pth cannot be written, install_app_support_package ends
\* with an error that identifies the app; the failure is not swallowed and
\* the support package is not reported installed.
C13_WriteFailureReported ==
    LastEvent \in { "open_fail", "write_fail" } =>
        /\ cpc = "aborted"
        /\ craised.type # "None"
        /\ IdentifiesApp(craised)

\* C14: the ._pth is written after super().install_app_support_package has
\* returned and only then, once per install; it is not written when that call
\* raised; after an install that returned the file holds the four lines, also
\* when the support package shipped a ._pth of its own.
C14_WriteAfterInstall ==
    /\ \A i \in 1..Len(events) :
          events[i] \in { "write_ok", "open_fail", "write_fail" } =>
              /\ i = 2
              /\ events[1] \in { "super_ok", "super_ok+pth" }
    /\ \A i \in 1..Len(events) :
          events[i] = "super_fail" => (Len(events) = i /\ cpc = "aborted")
    /\ cpc = "installed" =>
          /\ events[Len(events)] = "write_ok"
          /\ PthNow = pth_lines(sys_version)
          /\ PthNow # DefaultPth(sys_version)

C14_Witness ==
    /\ cpc = "installed"
    /\ events = << "super_ok+pth", "write_ok" >>
    /\ PthNow = pth_lines(sys_version)

-----------------------------------------------------------------------------
(* Properties of the support package URL *)

Dotted(v) == ToString(v[1]) \o "." \o ToString(v[2]) \o "." \o ToString(v[3])

ArchOf(size) == IF size * 8 = 64 THEN "amd64" ELSE "win32"

\* C9: for a version other than 3.7.2 the URL is
\* https://www.python.org/ftp/python/<v>/python-<v>-embed-<arch>.zip with the
\* version's three numbers, and <arch> is amd64 for a word of 64 bits and
\* win32 for any other.
C9_StandardUrl ==
    (url # NoUrl /\ sys_version # << 3, 7, 2 >>) =>
        url = "https://www.python.org/ftp/python/" \o Dotted(sys_version)
                \o "/python-" \o Dotted(sys_version)
                \o "-embed-" \o ArchOf(pointer_size) \o ".zip"

C9_Witness ==
    /\ url = "https://www.python.org/ftp/python/3.7.3/python-3.7.3-embed-win32.zip"
    /\ sys_version = << 3, 7, 3 >>
    /\ pointer_size = 4

\* C10: the URL has the .post1 segment exactly when the version is 3.7.2,
\* for either architecture.
C10_RepackagedOnly372 ==
    url # NoUrl =>
        LET variant == "https://www.python.org/ftp/python/" \o Dotted(sys_version)
                          \o "/python-" \o Dotted(sys_version)
                          \o ".post1-embed-" \o ArchOf(pointer_size) \o ".zip"
        IN  (url = variant) <=> (sys_version = << 3, 7, 2 >>)

C10_Witness ==
    /\ url = "https://www.python.org/ftp/python/3.7.2/python-3.7.2.post1-embed-win32.zip"
    /\ sys_version = << 3, 7, 2 >>

====
